---- MODULE Spec2Model ----
(***************************************************************************)
(* Model of the question service of src/main.py: the text normalizer       *)
(* clean_text, the multi-question resolver get_random_answer, and the      *)
(* write handlers add_question, add_multiple_questions and                 *)
(* edit_question_text over the "dictionary" collection.                    *)
(*                                                                         *)
(* A Python str is a sequence of one-character strings, so that strip,     *)
(* lower, re.sub, "in", split and join are computed character by           *)
(* character.  The collection is a sequence of documents in natural        *)
(* (insertion) order; a document's _id is its position.                    *)
(***************************************************************************)
EXTENDS Integers, Sequences, FiniteSets, TLC

VARIABLES
    store,      \* database[COLLECTION_NAME]: the stored question documents
    request,    \* the request the server is handling ("none" when idle)
    response,   \* what the handler returned or raised to the caller
    locals,     \* get_random_answer's local variables when it ended
    dbops       \* the collection operations the handler issued, in order

vars == <<store, request, response, locals, dbops>>

----------------------------------------------------------------------------
(* Bounds of the model *)

\* most documents the collection holds
MaxDocs == 2
\* most documents in one add_multiple_questions call
MaxBatch == 2
\* most tokens concatenated into one raw text of the text specification
MaxTokens == 3

----------------------------------------------------------------------------
(* Characters and Python's str operations *)

LowerLetters ==
    {"a", "b", "c", "d", "e", "f", "g", "h", "i", "j", "k", "l", "m",
     "n", "o", "p", "q", "r", "s", "t", "u", "v", "w", "x", "y", "z"}

UpperLetters ==
    {"A", "B", "C", "D", "E", "F", "G", "H", "I", "J", "K", "L", "M",
     "N", "O", "P", "Q", "R", "S", "T", "U", "V", "W", "X", "Y", "Z"}

Digits == {"0", "1", "2", "3", "4", "5", "6", "7", "8", "9"}

\* the letter pairs of str.lower()
CasePairs ==
    {<<"A", "a">>, <<"B", "b">>, <<"C", "c">>, <<"D", "d">>, <<"E", "e">>,
     <<"F", "f">>, <<"G", "g">>, <<"H", "h">>, <<"I", "i">>, <<"J", "j">>,
     <<"K", "k">>, <<"L", "l">>, <<"M", "m">>, <<"N", "n">>, <<"O", "o">>,
     <<"P", "p">>, <<"Q", "q">>, <<"R", "r">>, <<"S", "s">>, <<"T", "t">>,
     <<"U", "u">>, <<"V", "v">>, <<"W", "w">>, <<"X", "x">>, <<"Y", "y">>,
     <<"Z", "z">>}

\* \s of the regular expression, and the characters str.strip() removes
IsSpace(c) == c \in {" ", "\t", "\n"}

\* \w of the regular expression: alphanumeric or underscore
IsWord(c) == c \in LowerLetters \cup UpperLetters \cup Digits \cup {"_"}

LowerChar(c) ==
    IF c \in UpperLetters
    THEN (CHOOSE p \in CasePairs : p[1] = c)[2]
    ELSE c

\* str.lower()
Lower(s) == [i \in 1..Len(s) |-> LowerChar(s[i])]

RECURSIVE LStrip(_)
LStrip(s) ==
    IF s = <<>> THEN <<>>
    ELSE IF IsSpace(Head(s)) THEN LStrip(Tail(s))
    ELSE s

RECURSIVE RStrip(_)
RStrip(s) ==
    IF s = <<>> THEN <<>>
    ELSE IF IsSpace(s[Len(s)]) THEN RStrip(SubSeq(s, 1, Len(s) - 1))
    ELSE s

\* str.strip()
Strip(s) == RStrip(LStrip(s))

\* re.sub(r"[^\w\s]", "", text)
RemovePunctuation(s) == SelectSeq(s, LAMBDA c : IsWord(c) \/ IsSpace(c))

clean_text(text) == RemovePunctuation(Strip(Lower(text)))

StartsWith(s, p) == Len(p) <= Len(s) /\ SubSeq(s, 1, Len(p)) = p

\* p in s
Contains(s, p) ==
    \E i \in 0..(Len(s) - Len(p)) : SubSeq(s, i + 1, i + Len(p)) = p

RECURSIVE SplitFrom(_, _, _)
SplitFrom(s, sep, piece) ==
    IF s = <<>> THEN <<piece>>
    ELSE IF StartsWith(s, sep)
         THEN <<piece>> \o SplitFrom(SubSeq(s, Len(sep) + 1, Len(s)), sep, <<>>)
         ELSE SplitFrom(Tail(s), sep, Append(piece, Head(s)))

\* s.split(sep), sep not empty
Split(s, sep) == SplitFrom(s, sep, <<>>)

RECURSIVE Join(_, _)
\* sep.join(parts)
Join(parts, sep) ==
    IF parts = <<>> THEN <<>>
    ELSE IF Len(parts) = 1 THEN parts[1]
    ELSE parts[1] \o sep \o Join(Tail(parts), sep)

RECURSIVE Concat(_)
Concat(parts) == IF parts = <<>> THEN <<>> ELSE Head(parts) \o Concat(Tail(parts))

RECURSIVE SeqsUpTo(_, _)
\* the sequences over S of length at most n
SeqsUpTo(S, n) ==
    IF n = 0 THEN {<<>>}
    ELSE LET shorter == SeqsUpTo(S, n - 1)
         IN  shorter \cup {Append(q, x) : q \in shorter, x \in S}

----------------------------------------------------------------------------
(* The resolver's constants *)

\* the list with ", " tried first
delimiters_comma_first ==
    << <<",", " ">> ,
       <<",", " ", "u", "n", "d", " ">> ,
       <<",", " ", "o", "d", "e", "r", " ">> ,
       <<" ", "u", "n", "d", " ">> ,
       <<",", "u", "n", "d", " ">> ,
       <<",", "o", "d", "e", "r">> >>

delimiters ==
    << <<",", " ", "u", "n", "d", " ">> ,
       <<",", " ", "o", "d", "e", "r", " ">> ,
       <<" ", "u", "n", "d", " ">> ,
       <<",", " ">> ,
       <<",", "u", "n", "d", " ">> ,
       <<",", "o", "d", "e", "r">> >>

\* detected_delimiter = None
None == <<>>

\* ", " of ", ".join(answers)
DefaultDelimiter == <<",", " ">>

\* "No answers found for the given questions."
NoAnswersFound ==
    <<"N", "o", " ", "a", "n", "s", "w", "e", "r", "s", " ",
      "f", "o", "u", "n", "d", " ", "f", "o", "r", " ", "t", "h", "e", " ",
      "g", "i", "v", "e", "n", " ", "q", "u", "e", "s", "t", "i", "o", "n", "s", ".">>

\* "No answer found for: "
NoAnswerFoundFor ==
    <<"N", "o", " ", "a", "n", "s", "w", "e", "r", " ",
      "f", "o", "u", "n", "d", " ", "f", "o", "r", ":", " ">>

\* "No answers available"
NoAnswersAvailable ==
    <<"N", "o", " ", "a", "n", "s", "w", "e", "r", "s", " ",
      "a", "v", "a", "i", "l", "a", "b", "l", "e">>

----------------------------------------------------------------------------
(* Exceptions and responses *)

NoException == [type |-> "none", status_code |-> 0, detail |-> ""]

HTTPException(status_code, detail) ==
    [type |-> "HTTPException", status_code |-> status_code, detail |-> detail]

\* random.choice([])
IndexError ==
    [type |-> "IndexError", status_code |-> 0,
     detail |-> "Cannot choose from an empty sequence"]

\* insert_many([])
TypeError ==
    [type |-> "TypeError", status_code |-> 0,
     detail |-> "documents must be a non-empty list"]

\* the handler returned body (chars) or a message
Returned(body, message) ==
    [status |-> 200, body |-> body, detail |-> message, cause |-> NoException]

\* str(e): an HTTPException prints as "<status_code>: <detail>"
ExceptionText(e) ==
    IF e.type = "HTTPException"
    THEN ToString(e.status_code) \o ": " \o e.detail
    ELSE e.detail

\* "except Exception as e: raise HTTPException(status_code=500,
\* detail=f"<handler>: {e}")": every exception raised inside the try block, an
\* HTTPException included, leaves the handler as a 500
Excepted(handler, e) ==
    [status |-> 500, body |-> <<>>,
     detail |-> handler \o ": " \o ExceptionText(e), cause |-> e]

NoRequest == [op |-> "none", question_text |-> <<>>]

NoResponse == [status |-> 0, body |-> <<>>, detail |-> "", cause |-> NoException]

NoLocals ==
    [detected_delimiter |-> None, questions |-> <<>>, question_docs |-> <<>>,
     answers |-> <<>>]

----------------------------------------------------------------------------
(* get_random_answer, step by step *)

RECURSIVE first_delimiter(_, _)
\* "for delimiter in delimiters: if delimiter in question_text: ... break",
\* from the i-th entry on; None when the loop ends without a break
first_delimiter(question_text, i) ==
    IF i > Len(delimiters) THEN None
    ELSE IF Contains(question_text, delimiters[i]) THEN delimiters[i]
    ELSE first_delimiter(question_text, i + 1)

detect_delimiter(question_text) == first_delimiter(question_text, 1)

\* [clean_text(q) for q in question_text.split(delimiter) if q.strip()], or
\* [clean_text(question_text)] in the loop's else branch
split_questions(question_text, detected_delimiter) ==
    IF detected_delimiter = None
    THEN <<clean_text(question_text)>>
    ELSE LET pieces == Split(question_text, detected_delimiter)
             kept == SelectSeq(pieces, LAMBDA q : Strip(q) # <<>>)
         IN  [i \in 1..Len(kept) |-> clean_text(kept[i])]

\* {"question_text": {"$regex": re.escape(q), "$options": "i"}}: q occurs in
\* the stored text, letter case ignored
regex_matches(doc, q) == Contains(Lower(doc.question_text), Lower(q))

\* list(collection.find({"$or": [...]})): the documents, in natural order, that
\* some fragment matches
find(collection, questions) ==
    SelectSeq(collection,
              LAMBDA doc : \E i \in 1..Len(questions) : regex_matches(doc, questions[i]))

\* q.get("question_answers", ["No answers available"]): the default stands in
\* only for a document without the key; every document the handlers write has it
get_question_answers(doc) ==
    IF "question_answers" \in DOMAIN doc THEN doc.question_answers
    ELSE <<NoAnswersAvailable>>

\* the outcomes of random.choice over every document: choice[i] is the index
\* drawn in question_docs[i]'s answers (1 where there is nothing to draw)
Choices(question_docs) ==
    LET n(i) == IF get_question_answers(question_docs[i]) = <<>> THEN 1
                ELSE Len(get_question_answers(question_docs[i]))
        most == CHOOSE m \in {1} \cup {n(i) : i \in 1..Len(question_docs)} :
                   \A i \in 1..Len(question_docs) : n(i) <= m
    IN  {c \in [1..Len(question_docs) -> 1..most] :
            \A i \in 1..Len(question_docs) : c[i] <= n(i)}

\* the dict comprehension: clean_text(q["question_text"]) -> the drawn answer,
\* a later document replacing an earlier one under the same key
question_answer_map(question_docs, choice) ==
    LET key(i) == clean_text(question_docs[i].question_text)
        keys == {key(i) : i \in 1..Len(question_docs)}
        last(k) == CHOOSE i \in 1..Len(question_docs) :
                      /\ key(i) = k
                      /\ \A j \in 1..Len(question_docs) : key(j) = k => j <= i
    IN  [k \in keys |-> get_question_answers(question_docs[last(k)])[choice[last(k)]]]

\* random.choice drawn again for every fragment instead of once per document
build_answers_per_fragment(questions, question_docs, choice) ==
    LET n(d) == Len(get_question_answers(question_docs[d]))
        drawn(i) == [d \in 1..Len(question_docs) |-> ((choice[d] + i) % n(d)) + 1]
    IN  [i \in 1..Len(questions) |->
            LET m == question_answer_map(question_docs, drawn(i))
            IN  IF questions[i] \in DOMAIN m THEN m[questions[i]]
                ELSE NoAnswerFoundFor \o questions[i]]

\* [question_answer_map.get(q, f"No answer found for: {q}") for q in questions]
build_answers(questions, question_docs, choice) ==
    LET m == question_answer_map(question_docs, choice)
    IN  [i \in 1..Len(questions) |->
            IF questions[i] \in DOMAIN m THEN m[questions[i]]
            ELSE NoAnswerFoundFor \o questions[i]]

\* always ", ".join(answers)
response_text_default_join(detected_delimiter, answers) ==
    Join(answers, DefaultDelimiter)

\* detected_delimiter.join(answers) if detected_delimiter else ", ".join(answers)
response_text(detected_delimiter, answers) ==
    IF detected_delimiter # None
    THEN Join(answers, detected_delimiter)
    ELSE Join(answers, DefaultDelimiter)

\* the handler ended: what it raised or returned, its locals, its store operations
Ended(resp, loc, ops) ==
    /\ response' = resp
    /\ locals' = loc
    /\ dbops' = ops

\* the lookup without "if not question_docs: return ..."
lookup_and_respond_without_early_return(detected_delimiter, questions) ==
    LET question_docs == find(store, questions)
        loc == [detected_delimiter |-> detected_delimiter, questions |-> questions,
                question_docs |-> question_docs, answers |-> <<>>]
    IN  \E choice \in Choices(question_docs) :
            IF \E i \in 1..Len(question_docs) :
                   get_question_answers(question_docs[i]) = <<>>
            THEN Ended(Excepted("get_random_answer", IndexError), loc, <<"find">>)
            ELSE LET answers == build_answers(questions, question_docs, choice)
                 IN  Ended(Returned(response_text(detected_delimiter, answers), ""),
                           [loc EXCEPT !.answers = answers], <<"find">>)

\* one collection.find per fragment instead of one $or query
lookup_and_respond_find_per_fragment(detected_delimiter, questions) ==
    LET question_docs == find(store, questions)
        loc == [detected_delimiter |-> detected_delimiter, questions |-> questions,
                question_docs |-> question_docs, answers |-> <<>>]
        reads == [i \in 1..Len(questions) |-> "find"]
    IN  IF question_docs = <<>>
        THEN Ended(Returned(NoAnswersFound, ""), loc, reads)
        ELSE \E choice \in Choices(question_docs) :
                IF \E i \in 1..Len(question_docs) :
                       get_question_answers(question_docs[i]) = <<>>
                THEN Ended(Excepted("get_random_answer", IndexError), loc, reads)
                ELSE LET answers == build_answers(questions, question_docs, choice)
                     IN  Ended(Returned(response_text(detected_delimiter, answers), ""),
                               [loc EXCEPT !.answers = answers], reads)

\* the lookup and what follows it: find, the early return, the answer map, the
\* answers and the joined response
lookup_and_respond(detected_delimiter, questions) ==
    LET question_docs == find(store, questions)
        loc == [detected_delimiter |-> detected_delimiter, questions |-> questions,
                question_docs |-> question_docs, answers |-> <<>>]
    IN  IF question_docs = <<>>
        THEN Ended(Returned(NoAnswersFound, ""), loc, <<"find">>)
        ELSE \E choice \in Choices(question_docs) :
                IF \E i \in 1..Len(question_docs) :
                       get_question_answers(question_docs[i]) = <<>>
                THEN Ended(Excepted("get_random_answer", IndexError), loc, <<"find">>)
                ELSE LET answers == build_answers(questions, question_docs, choice)
                     IN  Ended(Returned(response_text(detected_delimiter, answers), ""),
                               [loc EXCEPT !.answers = answers], <<"find">>)

\* GET /random_answer
get_random_answer(question_text) ==
    /\ request' = [op |-> "get_random_answer", question_text |-> question_text]
    /\ store' = store
    /\ IF Strip(question_text) = <<>>
       THEN Ended(Excepted("get_random_answer",
                           HTTPException(400, "Invalid question_text: Cannot be empty.")),
                  NoLocals, <<>>)
       ELSE LET detected_delimiter == detect_delimiter(question_text)
                questions == split_questions(question_text, detected_delimiter)
            IN  IF questions = <<>>
                THEN Ended(Excepted("get_random_answer",
                                    HTTPException(400, "No valid questions detected.")),
                           [NoLocals EXCEPT !.detected_delimiter = detected_delimiter],
                           <<>>)
                ELSE lookup_and_respond(detected_delimiter, questions)

\* the response is sent and the handler's frame is gone: the server is idle
Reply ==
    /\ request # NoRequest
    /\ request' = NoRequest
    /\ response' = NoResponse
    /\ locals' = NoLocals
    /\ dbops' = <<>>
    /\ store' = store

----------------------------------------------------------------------------
(* The write handlers *)

\* POST /add_question
add_question(question) ==
    /\ request' = [op |-> "add_question", question_text |-> question.question_text]
    /\ locals' = NoLocals
    /\ IF \E i \in 1..Len(store) : store[i].question_text = question.question_text
       THEN /\ response' = Excepted("add_question",
                                    HTTPException(400, "This question already exists."))
            /\ dbops' = <<"find_one">>
            /\ store' = store
       ELSE /\ Len(store) < MaxDocs
            /\ store' = Append(store, question)
            /\ dbops' = <<"find_one", "insert_one">>
            /\ response' = Returned(<<>>, "Question added successfully")

\* POST /add_multiple_questions
add_multiple_questions(questions) ==
    /\ Len(store) + Len(questions) <= MaxDocs
    /\ request' = [op |-> "add_multiple_questions", question_text |-> <<>>]
    /\ locals' = NoLocals
    /\ dbops' = <<"insert_many">>
    /\ IF questions = <<>>
       THEN /\ response' = Excepted("add_multiple_questions", TypeError)
            /\ store' = store
       ELSE /\ store' = store \o questions
            /\ response' = Returned(<<>>, "Questions added successfully")

\* PUT /edit_question_text; question_id 0 is a string that is no ObjectId, any
\* other one is the _id of the document at that position, if there is one
edit_question_text(question_id, new_text) ==
    /\ request' = [op |-> "edit_question_text", question_text |-> new_text]
    /\ locals' = NoLocals
    /\ IF question_id = 0
       THEN /\ response' = Excepted("edit_question_text",
                                    HTTPException(400, "Invalid question ID format"))
            /\ dbops' = <<>>
            /\ store' = store
       ELSE /\ dbops' = <<"update_one">>
            /\ IF question_id \in 1..Len(store)
               THEN /\ store' = [store EXCEPT ![question_id].question_text = new_text]
                    /\ response' = Returned(<<>>, "Question text updated successfully")
               ELSE /\ store' = store
                    /\ response' = Excepted("edit_question_text",
                                            HTTPException(404, "Question not found"))

----------------------------------------------------------------------------
(* The requests of the model *)

\* stored question texts: "A!" and "a b"
QuestionTexts == {<<"A", "!">>, <<"a", " ", "b">>}

\* stored answers: none, ["x", "y"]
AnswerLists == {<<>>, << <<"x">>, <<"y">> >>}

\* the Question model of the POST bodies
Questions == [question_text : QuestionTexts, question_answers : AnswerLists]

\* what stands on either side of a delimiter in a raw text:
\* "", " ", "a", "A?", "b", "c", "!", "a b"
Sides == {<<>>,
          <<" ">>,
          <<"a">>,
          <<"A", "?">>,
          <<"b">>,
          <<"c">>,
          <<"!">>,
          <<"a", " ", "b">>}

\* raw question_text values: side, then a delimiter or nothing, then side
RawTexts ==
    {left \o mid \o right :
        left \in Sides, mid \in {delimiters[i] : i \in 1..Len(delimiters)} \cup {<<>>},
        right \in Sides}

----------------------------------------------------------------------------
(* The service *)

\* the server takes the next request when it has answered the last one
Idle == request = NoRequest

Init ==
    /\ store = <<>>
    /\ request = NoRequest
    /\ response = NoResponse
    /\ locals = NoLocals
    /\ dbops = <<>>

RandomAnswerRequest ==
    Idle /\ \E question_text \in RawTexts : get_random_answer(question_text)

AddQuestionRequest ==
    Idle /\ \E question \in Questions : add_question(question)

AddMultipleQuestionsRequest ==
    Idle /\ \E questions \in SeqsUpTo(Questions, MaxBatch) :
                add_multiple_questions(questions)

EditQuestionTextRequest ==
    Idle /\ \E question_id \in 0..(MaxDocs + 1), new_text \in QuestionTexts :
                edit_question_text(question_id, new_text)

Next ==
    \/ RandomAnswerRequest
    \/ AddQuestionRequest
    \/ AddMultipleQuestionsRequest
    \/ EditQuestionTextRequest
    \/ Reply

Spec == Init /\ [][Next]_vars

\* what the raw texts of the text specification are made of: "a", "A", "!",
\* " ", ",", ", Und " and the six delimiters
Tokens ==
    {<<"a">>, <<"A">>, <<"!">>, <<" ">>, <<",">>,
     <<",", " ", "U", "n", "d", " ">>} \cup
    {delimiters[i] : i \in 1..Len(delimiters)}

TokenTexts == {Concat(tokens) : tokens \in SeqsUpTo(Tokens, MaxTokens)}

\* the resolver alone, over an empty collection, on every text made of at most
\* MaxTokens tokens
TextRequest ==
    Idle /\ \E question_text \in TokenTexts : get_random_answer(question_text)

NextText ==
    \/ TextRequest
    \/ Reply

SpecText == Init /\ [][NextText]_vars

----------------------------------------------------------------------------
(* Claims *)

IsRandomAnswer == request.op = "get_random_answer"

\* the raw text passed the first check (line 88)
NotBlank == Strip(request.question_text) # <<>>

\* C1: a question_text that is empty or whitespace-only fails with status 400
\* (the "empty question" bad request), and no store read is issued.
C1_EmptyQuestionIsBadRequest ==
    (IsRandomAnswer /\ ~NotBlank) =>
        /\ response.status = 400
        /\ response.detail = "Invalid question_text: Cannot be empty."
        /\ dbops = <<>>

\* every piece of the raw text, split on the detected delimiter, is blank
AllPiecesBlank ==
    LET d == detect_delimiter(request.question_text)
    IN  /\ d # None
        /\ \A i \in 1..Len(Split(request.question_text, d)) :
              Strip(Split(request.question_text, d)[i]) = <<>>

\* C2: when every split piece is empty after trimming (as for " , "), the call
\* fails with status 400 ("no valid questions detected") and no store read is
\* issued.
C2_NoValidQuestionsIsBadRequest ==
    (IsRandomAnswer /\ NotBlank /\ AllPiecesBlank) =>
        /\ response.status = 400
        /\ response.detail = "No valid questions detected."
        /\ dbops = <<>>

\* C3: a matched record whose question_answers list is present but empty is
\* mapped to "No answers available" under its normalized question_text, and the
\* call succeeds.
C3_EmptyAnswersAreMapped ==
    (IsRandomAnswer /\ \E i \in 1..Len(locals.question_docs) :
                          locals.question_docs[i].question_answers = <<>>) =>
        /\ response.status = 200
        /\ \A i \in 1..Len(locals.question_docs), j \in 1..Len(locals.questions) :
              (/\ locals.question_docs[i].question_answers = <<>>
               /\ locals.questions[j] = clean_text(locals.question_docs[i].question_text)
               /\ \A k \in (i + 1)..Len(locals.question_docs) :
                     clean_text(locals.question_docs[k].question_text) # locals.questions[j])
              => locals.answers[j] = NoAnswersAvailable

\* the stored records whose question_text contains q, letter case ignored
MatchingRecords(q) ==
    {i \in 1..Len(store) : Contains(Lower(store[i].question_text), Lower(q))}

\* C4: with two fragments, one matched by a stored record (by containment, not
\* necessarily equality) and one matched by none, the response is an answer of
\* a matching record for the matched fragment and "No answer found for:
\* <fragment>" for the other, joined by the detected (or default) delimiter.
\* Stated for fragments that are not empty and matching records that have
\* answers.
C4_MatchedAndUnmatchedFragment ==
    \A m \in {1, 2} :
        LET u == 3 - m
            q == locals.questions
            joiner == IF locals.detected_delimiter = None THEN DefaultDelimiter
                      ELSE locals.detected_delimiter
        IN  (/\ IsRandomAnswer
             /\ Len(q) = 2
             /\ q[m] # <<>>
             /\ q[u] # <<>>
             /\ MatchingRecords(q[m]) # {}
             /\ MatchingRecords(q[u]) = {}
             /\ \A i \in MatchingRecords(q[m]) : store[i].question_answers # <<>>)
            => /\ response.status = 200
               /\ \E i \in MatchingRecords(q[m]) :
                     \E a \in 1..Len(store[i].question_answers) :
                        LET seg == [k \in {1, 2} |->
                                      IF k = m THEN store[i].question_answers[a]
                                      ELSE NoAnswerFoundFor \o q[u]]
                        IN  response.body = seg[1] \o joiner \o seg[2]

\* C5: no two stored question records have the same question_text.
C5_QuestionTextUnique ==
    \A i, j \in 1..Len(store) :
        i # j => store[i].question_text # store[j].question_text

\* C6: clean_text is idempotent, clean_text(clean_text(s)) = clean_text(s): on
\* the raw text of the request, and on every fragment the resolver normalized.
C6_CleanTextIdempotent ==
    IsRandomAnswer =>
        /\ clean_text(clean_text(request.question_text))
              = clean_text(request.question_text)
        /\ \A i \in 1..Len(locals.questions) :
              clean_text(locals.questions[i]) = locals.questions[i]

\* the same fragment stands at two places of the query set and matches a
\* record that has two distinct answers (a record whose normalized text is the
\* fragment, so that it is mapped), and the call returned its answers
SameFragmentTwice ==
    /\ IsRandomAnswer
    /\ response.status = 200
    /\ \E i, j \in 1..Len(locals.questions) :
          /\ i < j
          /\ locals.questions[i] = locals.questions[j]
          /\ \E d \in 1..Len(locals.question_docs) :
                /\ regex_matches(locals.question_docs[d], locals.questions[i])
                /\ clean_text(locals.question_docs[d].question_text) = locals.questions[i]
                /\ \E a, b \in 1..Len(locals.question_docs[d].question_answers) :
                      locals.question_docs[d].question_answers[a]
                         # locals.question_docs[d].question_answers[b]

\* C7 as claimed: the answers for the occurrences of one fragment are chosen
\* separately, so among the responses the random choices can produce there is
\* one in which the two segments differ.
C7_SameFragmentSegmentsCanDiffer ==
    SameFragmentTwice =>
        \E choice \in Choices(locals.question_docs) :
            LET answers == build_answers(locals.questions, locals.question_docs, choice)
            IN  \E i, j \in 1..Len(locals.questions) :
                    /\ locals.questions[i] = locals.questions[j]
                    /\ answers[i] # answers[j]

\* C7, amended: the answer is drawn once per matched record and request, so
\* all occurrences of one fragment in a response carry the same segment.
C7_SameFragmentSameSegment ==
    (IsRandomAnswer /\ response.status = 200 /\ locals.question_docs # <<>>) =>
        /\ Len(locals.answers) = Len(locals.questions)
        /\ \A i, j \in 1..Len(locals.questions) :
              locals.questions[i] = locals.questions[j]
                 => locals.answers[i] = locals.answers[j]

C7_Witness ==
    /\ SameFragmentTwice
    /\ \E i \in 1..Len(locals.answers) :
          locals.answers[i] \in {<<"x">>, <<"y">>}

\* the priority order, as the claim gives it
C8_PriorityOrder ==
    << <<",", " ", "u", "n", "d", " ">> ,
       <<",", " ", "o", "d", "e", "r", " ">> ,
       <<" ", "u", "n", "d", " ">> ,
       <<",", " ">> ,
       <<",", "u", "n", "d", " ">> ,
       <<",", "o", "d", "e", "r">> >>

\* C8: the detected delimiter is the first entry of ", und ", ", oder ",
\* " und ", ", ", ",und ", ",oder" that occurs (case-sensitively) in the raw
\* text; the text is split on that delimiter only; when none occurs, no
\* delimiter is detected and the whole text is the single question.
C8_FirstDelimiterInPriorityOrder ==
    (IsRandomAnswer /\ NotBlank) =>
        LET text == request.question_text
            d == locals.detected_delimiter
            occurring == {i \in 1..Len(C8_PriorityOrder) :
                             Contains(text, C8_PriorityOrder[i])}
        IN  IF occurring = {}
            THEN /\ d = None
                 /\ locals.questions = <<clean_text(text)>>
            ELSE \E i \in occurring :
                    /\ \A j \in occurring : i <= j
                    /\ d = C8_PriorityOrder[i]
                    /\ LET pieces == Split(text, d)
                           kept == SelectSeq(pieces, LAMBDA q : Strip(q) # <<>>)
                       IN  /\ Join(pieces, d) = text
                           /\ \A k \in 1..Len(pieces) : ~Contains(pieces[k], d)
                           /\ Len(locals.questions) = Len(kept)
                           /\ \A k \in 1..Len(kept) :
                                 locals.questions[k] = clean_text(kept[k])

\* " und " is detected in a text in which ", " occurs as well
C8_Witness ==
    /\ IsRandomAnswer
    /\ locals.detected_delimiter = C8_PriorityOrder[3]
    /\ Contains(request.question_text, C8_PriorityOrder[4])
    /\ Len(locals.questions) >= 2
    /\ locals.questions[1] # <<>>

\* ", und " occurs exactly once in the raw text, with text that is not blank
\* on each side
C9_OneUnd ==
    LET text == request.question_text
        und == C8_PriorityOrder[1]
        sides == Split(text, und)
    IN  /\ IsRandomAnswer
        /\ Cardinality({i \in 0..(Len(text) - Len(und)) :
                           SubSeq(text, i + 1, i + Len(und)) = und}) = 1
        /\ Len(sides) = 2
        /\ Strip(sides[1]) # <<>>
        /\ Strip(sides[2]) # <<>>

\* C9 as claimed: such a text yields exactly two fragments and the response
\* joins exactly two answer segments with ", und ".
C9_TwoSegmentsJoinedByUnd ==
    C9_OneUnd =>
        /\ Len(locals.questions) = 2
        /\ response.status = 200
        /\ Len(locals.answers) = 2
        /\ response.body = locals.answers[1] \o C8_PriorityOrder[1] \o locals.answers[2]

\* C9, amended: such a text yields exactly two fragments, the two sides
\* normalized; a returned response is the fixed no-match sentence when no
\* record matched and otherwise exactly two answer segments joined by ", und ";
\* the call fails only when a matched record has no answers.
C9_TwoFragmentsAndUndJoin ==
    C9_OneUnd =>
        LET sides == Split(request.question_text, C8_PriorityOrder[1])
        IN  /\ locals.questions = <<clean_text(sides[1]), clean_text(sides[2])>>
            /\ response.status \in {200, 500}
            /\ response.status = 500 <=>
                  \E d \in 1..Len(locals.question_docs) :
                      locals.question_docs[d].question_answers = <<>>
            /\ response.status = 200 =>
                  IF MatchingRecords(locals.questions[1]) = {}
                     /\ MatchingRecords(locals.questions[2]) = {}
                  THEN response.body = NoAnswersFound
                  ELSE /\ Len(locals.answers) = 2
                       /\ response.body =
                             locals.answers[1] \o C8_PriorityOrder[1] \o locals.answers[2]

C9_Witness ==
    /\ C9_OneUnd
    /\ response.status = 200
    /\ locals.question_docs # <<>>
    /\ locals.answers[1] \in {<<"x">>, <<"y">>}
    /\ locals.answers[1] # locals.answers[2]

\* no stored record matches any fragment of a request that passed validation
C10_NothingMatches ==
    /\ IsRandomAnswer
    /\ NotBlank
    /\ locals.questions # <<>>
    /\ \A i \in 1..Len(locals.questions) : MatchingRecords(locals.questions[i]) = {}

\* C10: when the lookup returns no record for the whole fragment set, the call
\* succeeds and returns exactly "No answers found for the given questions.".
C10_NoRecordsGivesFixedSentence ==
    C10_NothingMatches =>
        /\ response.status = 200
        /\ response.cause = NoException
        /\ response.body = NoAnswersFound
        /\ locals.answers = <<>>

C10_Witness ==
    /\ C10_NothingMatches
    /\ store # <<>>
    /\ Len(locals.questions) = 2
    /\ response.status = 200

\* C11 as claimed: every invocation of the resolver issues exactly one read
\* against the question store.
C11_EveryInvocationReadsOnce ==
    IsRandomAnswer => dbops = <<"find">>

\* C11, amended: an invocation whose input passes validation issues exactly
\* one read (the single find), whatever the number of fragments; an invocation
\* rejected by validation issues none; the operations an invocation issues
\* never hold a second read or a write.
C11_OneReadNoWrite ==
    IsRandomAnswer =>
        dbops = IF NotBlank /\ ~AllPiecesBlank THEN <<"find">> ELSE <<>>

C11_Witness ==
    /\ IsRandomAnswer
    /\ store # <<>>
    /\ Len(locals.questions) = 2
    /\ locals.questions[1] # locals.questions[2]
    /\ dbops = <<"find">>

\* the join string: the detected delimiter, or ", " when none was detected
C12_Joiner ==
    IF locals.detected_delimiter = None THEN <<",", " ">>
    ELSE locals.detected_delimiter

\* the matched records whose normalized question_text is the fragment q
C12_KeyedBy(q) ==
    {d \in 1..Len(locals.question_docs) :
        clean_text(locals.question_docs[d].question_text) = q}

\* C12: whenever at least one record matches, the response is the join of one
\* segment per fragment of the query set, in fragment order with duplicates
\* kept; segment i is the answer mapped under the key equal to fragment i (an
\* answer of the last matched record with that key, "No answers available" if
\* it has none) when there is such a key, and otherwise "No answer found for: "
\* followed by the fragment; the join string is the detected delimiter, or
\* ", " when none was detected.  Stated for fragments that are not empty.
C12_OneSegmentPerFragment ==
    (/\ IsRandomAnswer
     /\ locals.question_docs # <<>>
     /\ \A i \in 1..Len(locals.questions) : locals.questions[i] # <<>>) =>
        /\ response.status = 200
        /\ Len(locals.answers) = Len(locals.questions)
        /\ response.body = Join(locals.answers, C12_Joiner)
        /\ \A i \in 1..Len(locals.questions) :
              LET q == locals.questions[i]
                  keyed == C12_KeyedBy(q)
              IN  IF keyed = {}
                  THEN locals.answers[i] = NoAnswerFoundFor \o q
                  ELSE LET d == CHOOSE d \in keyed : \A e \in keyed : e <= d
                           given == locals.question_docs[d].question_answers
                       IN  IF given = <<>>
                           THEN locals.answers[i] = NoAnswersAvailable
                           ELSE \E a \in 1..Len(given) : locals.answers[i] = given[a]

\* C13: every fragment of the query set sent to the question store is a
\* non-empty string, for every raw text that passes validation (pieces made of
\* punctuation only included), so no pattern that matches every record is
\* issued.
C13_NoEmptyFragmentSent ==
    (IsRandomAnswer /\ dbops = <<"find">>) =>
        \A i \in 1..Len(locals.questions) : locals.questions[i] # <<>>

====
